---- MODULE Spec2Model ----
(***************************************************************************)
(* Model of the MonolithMaestro pitch-detection engine and its recording   *)
(* controller (Source/PitchDetector and Source/PluginProcessor).          *)
(*                                                                         *)
(* Fixed-point units used for the code's float quantities:                 *)
(*   samples, magnitudes, thresholds : thousandths (1000 is 1.0f)          *)
(*   bin positions after refinement  : thousandths of a bin                *)
(*   frequencies                     : tenths of a hertz                   *)
(* The forward transform (juce::dsp::FFT) is a library call; its result,   *)
(* the magnitude spectrum of the frame, is an input of the analysis step.  *)
(***************************************************************************)
EXTENDS Integers, Sequences, FiniteSets, TLC

\* ------------------------------------------------------------------ bounds

\* Length of an analysis frame (fftSize_, 2048 in the code).
FrameSize == 3

\* Number of bins of the magnitude spectrum (fftSize_ / 2 in the code; the
\* transform is abstract, so the two are bounded independently).
NumBins == 8

\* Number of bins of the spectra that hold more peaks than maxPolyphony_.
PolyBins == 15

\* Cap on NoteHistory::consecutiveFrames (an unbounded int in the code).
MaxConsecutive == 3

\* Cap on the length of the recorded note sequence.
MaxRecorded == 3

\* Longest recorded sequence handed to the key estimator, besides the
\* named examples.
MaxKeyLen == 2

\* ----------------------------------------------------------------- helpers

Abs(x) == IF x < 0 THEN -x ELSE x

Min(a, b) == IF a < b THEN a ELSE b


\* Quotient rounded toward zero (b # 0).
DivTrunc(a, b) ==
    IF (a < 0) = (b < 0) THEN Abs(a) \div Abs(b) ELSE -(Abs(a) \div Abs(b))

RECURSIVE SqrtSearch(_, _, _)
SqrtSearch(x, lo, hi) ==
    IF lo >= hi THEN lo
    ELSE LET mid == (lo + hi + 1) \div 2
         IN IF mid * mid <= x THEN SqrtSearch(x, mid, hi)
            ELSE SqrtSearch(x, lo, mid - 1)

\* floor(sqrt(x)) for 0 <= x < 2^31.
ISqrt(x) == SqrtSearch(x, 0, Min(x, 46340))

RECURSIVE Pow2(_)
Pow2(n) == IF n <= 0 THEN 1 ELSE 2 * Pow2(n - 1)

RECURSIVE SumSeq(_)
SumSeq(s) == IF s = <<>> THEN 0 ELSE Head(s) + SumSeq(Tail(s))

Range(s) == {s[i] : i \in 1..Len(s)}

\* All sequences over S of length lo..hi.
SeqsOf(S, lo, hi) == UNION {[1..n -> S] : n \in lo..hi}

\* The permutations of 1..n.

\* ------------------------------------------------------------ configuration

fftSize_ == FrameSize

maxPolyphony_m == 4 + 1
maxPolyphony_ == 4

stabilityFramesRequired_ == 2

\* The std::array noteNames_; a juce::String is a sequence of characters.
noteNames_ ==
    << <<"C">>, <<"C", "#">>, <<"D">>, <<"D", "#">>, <<"E">>, <<"F">>,
       <<"F", "#">>, <<"G">>, <<"G", "#">>, <<"A">>, <<"A", "#">>, <<"B">> >>

\* 2^(k/12) for k = 0..11, in ten-thousandths (std::pow in midiNoteToFrequency).
SemitoneRatio ==
    <<10000, 10595, 11225, 11892, 12599, 13348,
      14142, 14983, 15874, 16818, 17818, 18877>>

\* 2^((k - 0.5)/12) for k = 0..11, in ten-thousandths: the frequency ratio at
\* which round(69 + 12*log2(f/440)) steps from one MIDI number to the next.
HalfStepRatio ==
    <<9715, 10293, 10905, 11554, 12241, 12968,
      13740, 14557, 15422, 16339, 17311, 18340>>

\* ratio[k] * 440 Hz * 2^oct in tenths of a hertz, for (m - 69) = 12*oct + k.
ScaledPitch(ratio, m) ==
    LET k    == (m - 69) % 12
        oct  == ((m - 69) - k) \div 12
        base == 4400 * ratio[k + 1]
    IN IF oct >= 0 THEN (base * Pow2(oct)) \div 10000
       ELSE base \div (10000 * Pow2(-oct))

midiNoteToFrequency(midiNote) == ScaledPitch(SemitoneRatio, midiNote)


\* ---------------------------------------------------------------- variables

VARIABLES
    policy,               \* "mono": strongest-bin extractor with stability
                          \* tracking; "multi": multi-peak extractor
    sampleRate_,          \* PitchDetector::sampleRate_ (Hz)
    expectedBlockSize_,   \* PitchDetector::expectedBlockSize_
    fifo_,                \* juce::AbstractFifo: [validStart, validEnd]
    fifoBuffer_,          \* std::vector<float> of fftSize_ samples
    pastEnd_,             \* the word just past fifoBuffer_'s storage
    detectedNotes_,       \* the published notes
    candidateNotes_,      \* this cycle's candidates (mono)
    noteHistory_,         \* stability history (mono)
    magnitudeThreshold_,
    noiseGateThreshold_,
    isActive_,
    audioActive,          \* MonolithMaestroProcessor
    isRecording_,
    recordedNotes_,
    lastRecordedNote_,
    detectedKey_,
    recordingLock_,       \* owner of the CriticalSection, or "free"
    pcAudio,              \* position of the audio (producer) context
    pcCtrl,               \* position of the recording-control context
    audioLocal,           \* locals of the producer across its steps
    stopResult,           \* the list stopRecording() last returned
    currentNotes_,        \* MonolithMaestroEditor::currentNotes_ (last poll)
    last,                 \* observation of the last detector call
    candRun,              \* run of equal candidates over consecutive cycles
    obs                   \* observations of the concurrent contexts and of
                          \* a function applied to a drawn argument

detectorVars ==
    <<policy, sampleRate_, expectedBlockSize_, fifo_, fifoBuffer_, pastEnd_,
      detectedNotes_, candidateNotes_, noteHistory_, magnitudeThreshold_,
      noiseGateThreshold_, isActive_>>

recordingVars ==
    <<audioActive, isRecording_, recordedNotes_, lastRecordedNote_,
      detectedKey_, recordingLock_, stopResult>>

controlVars == <<pcAudio, pcCtrl, audioLocal, currentNotes_>>

observerVars == <<last, candRun, obs>>

vars == <<detectorVars, recordingVars, controlVars, observerVars>>

\* ------------------------------------------------- frequency classification

DecimalDigits(n) ==
    LET d == <<"0", "1", "2", "3", "4", "5", "6", "7", "8", "9">>
    IN IF n < 10 THEN <<d[n + 1]>> ELSE <<d[(n \div 10) + 1], d[(n % 10) + 1]>>

Invalid == <<"I", "n", "v", "a", "l", "i", "d">>

\* PitchDetector::midiNoteToName of the strongest-bin build: the bare name.
midiNoteToName(midiNote) ==
    IF midiNote < 0 \/ midiNote > 127 THEN Invalid
    ELSE noteNames_[(midiNote % 12) + 1]

\* PitchDetector::midiNoteToName of the multi-peak build: name and octave.
midiNoteToNameOctave(midiNote) ==
    IF midiNote < 0 \/ midiNote > 127 THEN Invalid
    ELSE noteNames_[(midiNote % 12) + 1] \o DecimalDigits(midiNote \div 12)

\* One NoteFrequencyRange of PitchDetector::initializeFrequencyMap.
NoteFrequencyRange(midiNote) ==
    LET center == midiNoteToFrequency(midiNote)
        lowerNoteFreq == midiNoteToFrequency(midiNote - 1)
        upperNoteFreq == midiNoteToFrequency(midiNote + 1)
    IN [midiNoteNumber  |-> midiNote,
        noteName        |-> midiNoteToName(midiNote),
        centerFrequency |-> center,
        minFrequency    |-> ISqrt(lowerNoteFreq * center),
        maxFrequency    |-> ISqrt(center * upperNoteFreq)]

RECURSIVE RangesBetween(_, _)
RangesBetween(lo, hi) ==
    IF lo > hi THEN <<>>
    ELSE IF lo = hi THEN <<NoteFrequencyRange(lo)>>
    ELSE RangesBetween(lo, (lo + hi) \div 2)
            \o RangesBetween(((lo + hi) \div 2) + 1, hi)

\* PitchDetector::initializeFrequencyMap: the ranges of MIDI 24..96 in order.
frequencyMap_ == RangesBetween(24, 96)

\* PitchDetector::findNoteForFrequency: the first range holding the
\* frequency, as <<range>>, or <<>> for nullptr.
findNoteForFrequency_m(frequency) ==
    LET hits == {i \in 1..Len(frequencyMap_) :
                    /\ frequency >= frequencyMap_[i].minFrequency
                    /\ frequency <= frequencyMap_[i].maxFrequency}
    IN IF hits = {} THEN <<>>
       ELSE <<frequencyMap_[CHOOSE i \in hits : \A j \in hits : i <= j]>>
findNoteForFrequency(frequency) ==
    LET hits == {i \in 1..Len(frequencyMap_) :
                    /\ frequency >= frequencyMap_[i].minFrequency
                    /\ frequency < frequencyMap_[i].maxFrequency}
    IN IF hits = {} THEN <<>>
       ELSE <<frequencyMap_[CHOOSE i \in hits : \A j \in hits : i <= j]>>

\* The frequencies at which round(69 + 12*log2(f/440)) steps to m.
RECURSIVE HalfStepsBetween(_, _)
HalfStepsBetween(lo, hi) ==
    IF lo > hi THEN <<>>
    ELSE IF lo = hi THEN <<ScaledPitch(HalfStepRatio, lo)>>
    ELSE HalfStepsBetween(lo, (lo + hi) \div 2)
            \o HalfStepsBetween(((lo + hi) \div 2) + 1, hi)

\* halfStepBelow[m + 1] is the frequency at which the rounded MIDI number
\* steps from m - 1 to m.
halfStepBelow == HalfStepsBetween(0, 128)

\* PitchDetector::frequencyToMidiNote: round(69 + 12*log2(f/440)), or -1
\* outside 0..127. The rounded value is m exactly when f lies between the
\* half-step frequencies below and above m.
frequencyToMidiNote(frequency) ==
    IF frequency <= 0 THEN -1
    ELSE LET hits == {m \in 0..127 : /\ halfStepBelow[m + 1] <= frequency
                                     /\ frequency < halfStepBelow[m + 2]}
         IN IF hits = {} THEN -1 ELSE CHOOSE m \in hits : TRUE

\* ---------------------------------------------------------------- noise gate

\* PitchDetector::calculateRMS, rounded down to a thousandth; "rms < t" for a
\* threshold t in thousandths is unaffected by the rounding.
calculateRMS(buffer) ==
    IF Len(buffer) <= 0 THEN 0
    ELSE LET sumOfSquares == SumSeq([i \in 1..Len(buffer) |-> buffer[i] * buffer[i]])
             mean == sumOfSquares \div Len(buffer)
         IN ISqrt(mean)

\* -------------------------------------------------------- juce::AbstractFifo

\* fifo_(fftSize_ + 1)
fifoBufferSize_m == fftSize_
fifoBufferSize == fftSize_ + 1

getNumReady(f) ==
    IF f.validEnd >= f.validStart THEN f.validEnd - f.validStart
    ELSE fifoBufferSize - (f.validStart - f.validEnd)

getFreeSpace(f) == fifoBufferSize - getNumReady(f) - 1

NoRegion == [start1 |-> 0, size1 |-> 0, start2 |-> 0, size2 |-> 0]

prepareToWrite(f, numToWrite) ==
    LET n == Min(numToWrite, getFreeSpace(f))
    IN IF n <= 0 THEN NoRegion
       ELSE LET b1 == Min(fifoBufferSize - f.validEnd, n)
                rest == n - b1
            IN [start1 |-> f.validEnd, size1 |-> b1, start2 |-> 0,
                size2 |-> IF rest <= 0 THEN 0 ELSE Min(rest, f.validStart)]

finishedWrite(f, numWritten) ==
    LET newEnd == f.validEnd + numWritten
    IN [f EXCEPT !.validEnd =
            IF newEnd >= fifoBufferSize THEN newEnd - fifoBufferSize ELSE newEnd]

prepareToRead(f, numWanted) ==
    LET n == Min(numWanted, getNumReady(f))
    IN IF n <= 0 THEN NoRegion
       ELSE LET b1 == Min(fifoBufferSize - f.validStart, n)
                rest == n - b1
            IN [start1 |-> f.validStart, size1 |-> b1, start2 |-> 0,
                size2 |-> IF rest <= 0 THEN 0 ELSE Min(rest, f.validEnd)]

finishedRead(f, numRead) ==
    LET newStart == f.validStart + numRead
    IN [f EXCEPT !.validStart =
            IF newStart >= fifoBufferSize THEN newStart - fifoBufferSize
            ELSE newStart]

fifoReset == [validStart |-> 0, validEnd |-> 0]

\* The storage indices a region handed out by prepareToWrite or prepareToRead
\* covers: [start1, start1 + size1) and [start2, start2 + size2).
Region(g) ==
    {idx \in 0..fifoBufferSize :
        \/ idx >= g.start1 /\ idx < g.start1 + g.size1
        \/ idx >= g.start2 /\ idx < g.start2 + g.size2}

\* The source index in audioData (1-based) copied to storage index idx by the
\* two std::copy calls of processAudioBlock, or 0 when idx is not written.
WrittenFrom(w, idx) ==
    IF idx >= w.start1 /\ idx < w.start1 + w.size1 THEN idx - w.start1 + 1
    ELSE IF idx >= w.start2 /\ idx < w.start2 + w.size2
         THEN w.size1 + (idx - w.start2) + 1
         ELSE 0

\* fifoBuffer_ after the two copies; indices 0..fftSize_-1 are the vector's.
CopyIn(buf, audioData, w) ==
    [idx \in 0..(fftSize_ - 1) |->
        IF WrittenFrom(w, idx) > 0 THEN audioData[WrittenFrom(w, idx)]
        ELSE buf[idx]]

\* What a word that is not the vector's holds once its owner has used it; no
\* sample has this value.
junk == 0 - 999999

\* A copy that reaches index fftSize_ writes past the end of the vector:
\* undefined behaviour. The word there either keeps the sample (allocator
\* slack) or holds whatever its owner puts there (junk).
CopyPast(past, audioData, w, kept) ==
    IF WrittenFrom(w, fftSize_) > 0
    THEN (IF kept THEN audioData[WrittenFrom(w, fftSize_)] ELSE junk)
    ELSE past

\* The frame performFFTAnalysis copies out of the storage.
ReadAt(buf, past, idx) == IF idx < fftSize_ THEN buf[idx] ELSE past

ReadFrame(buf, past, r) ==
    [i \in 1..(r.size1 + r.size2) |->
        IF i <= r.size1 THEN ReadAt(buf, past, r.start1 + i - 1)
        ELSE ReadAt(buf, past, r.start2 + i - r.size1 - 1)]

\* if (fifo_.getNumReady() >= fftSize_)
enoughSamples_m(f) == getNumReady(f) > fftSize_
enoughSamples(f) == getNumReady(f) >= fftSize_


\* ------------------------------------------------------------ spectral peaks

\* A float is its value in thousandths; NaN is encoded by a number no
\* modelled value reaches. Every ordered comparison with a NaN is false.
NaN == 0 - 1000000000
lessThan(a, b) == a # NaN /\ b # NaN /\ a < b

\* fftSize_ / 2, the size of the magnitude spectrum.
binCount(mags) == Cardinality(DOMAIN mags)

\* Parabolic interpolation around peakIndex, in thousandths of a bin.
\* Magnitudes are whole thousandths, so |denominator| > 0.0001f is
\* denominator # 0.
parabolicRefine(mags, peakIndex) ==
    IF peakIndex > 0 /\ peakIndex < binCount(mags) - 1
    THEN LET left   == mags[peakIndex - 1]
             center == mags[peakIndex]
             right  == mags[peakIndex + 1]
             denominator == left - 2 * center + right
         IN IF Abs(denominator) > 0
            THEN peakIndex * 1000 + DivTrunc(500 * (left - right), denominator)
            ELSE peakIndex * 1000
    ELSE peakIndex * 1000

\* refinedPeakIndex * sampleRate_ / fftSize_, in tenths of a hertz.
binToFrequency(refinedPeakIndex, sampleRate) ==
    DivTrunc(refinedPeakIndex * sampleRate, fftSize_ * 100)

RECURSIVE ScanStrongest(_, _, _)
ScanStrongest(mags, i, strongestBin) ==
    IF i >= binCount(mags) THEN strongestBin
    ELSE ScanStrongest(mags, i + 1,
            IF mags[i] > mags[strongestBin] THEN i ELSE strongestBin)

\* The strongest-bin search of performFFTAnalysis: bins 2 .. fftSize_/2 - 1.
strongestBinOf(mags) == ScanStrongest(mags, 3, 2)

\* candidateNotes_ of the strongest-bin performFFTAnalysis.
monoCandidates(mags, magnitudeThreshold, sampleRate) ==
    LET strongestBin == strongestBinOf(mags)
        strongestMagnitude == mags[strongestBin]
    IN IF lessThan(magnitudeThreshold, strongestMagnitude)
       THEN LET frequency ==
                    binToFrequency(parabolicRefine(mags, strongestBin), sampleRate)
                noteRange == findNoteForFrequency(frequency)
            IN IF noteRange # <<>>
               THEN << [noteName       |-> noteRange[1].noteName,
                        frequency      |-> frequency,
                        magnitude      |-> strongestMagnitude,
                        midiNoteNumber |-> noteRange[1].midiNoteNumber] >>
               ELSE <<>>
       ELSE <<>>

RemoveAt(s, i) == SubSeq(s, 1, i - 1) \o SubSeq(s, i + 1, Len(s))

\* The orders std::sort may leave a sequence of records in when comparing
\* by "magnitude >": non-increasing magnitude, equal magnitudes in any order.
RECURSIVE DescendingOrders(_)
DescendingOrders(s) ==
    IF s = <<>> THEN {<<>>}
    ELSE LET top == CHOOSE m \in {s[i].magnitude : i \in 1..Len(s)} :
                        \A i \in 1..Len(s) : s[i].magnitude <= m
         IN UNION {{<<s[i]>> \o t : t \in DescendingOrders(RemoveAt(s, i))} :
                     i \in {j \in 1..Len(s) : s[j].magnitude = top}}

\* std::sort(detectedNotes_.begin(), detectedNotes_.end()) with
\* DetectedNote::operator<.
sortNotes_m(notes) == {notes}
sortNotes(notes) == DescendingOrders(notes)

\* ------------------------------------------------------- stability tracking

IndexOfMidi(entries, midi) ==
    LET found == {i \in 1..Len(entries) : entries[i].midi = midi}
    IN IF found = {} THEN 0 ELSE CHOOSE i \in found : \A j \in found : i <= j

\* First loop of updateNoteStability: count the candidates into the history.
RECURSIVE countCandidates(_, _)
countCandidates(history, candidates) ==
    IF candidates = <<>> THEN history
    ELSE LET candidate == Head(candidates)
             at == IndexOfMidi([i \in 1..Len(history) |->
                                   [midi |-> history[i].midiNote]],
                               candidate.midiNoteNumber)
         IN countCandidates(
              IF at > 0
              THEN [history EXCEPT
                      ![at].consecutiveFrames = @ + 1,
                      ![at].totalMagnitude = @ + candidate.magnitude]
              ELSE Append(history,
                      [midiNote          |-> candidate.midiNoteNumber,
                       consecutiveFrames |-> 1,
                       totalMagnitude    |-> candidate.magnitude]),
              Tail(candidates))

stillPresent_m(entry, candidates) == TRUE
stillPresent(entry, candidates) ==
    \E i \in 1..Len(candidates) : candidates[i].midiNoteNumber = entry.midiNote

\* Second loop: erase the entries no candidate matches.
eraseAbsent_m(history, candidates) == history
eraseAbsent(history, candidates) ==
    SelectSeq(history, LAMBDA h : stillPresent(h, candidates))

\* if (history.consecutiveFrames >= stabilityFramesRequired_)
isStable_m(entry) == entry.consecutiveFrames >= 1
isStable(entry) == entry.consecutiveFrames >= stabilityFramesRequired_

\* Third loop: the stable entries' current candidates, in history order.
RECURSIVE stableNotes(_, _)
stableNotes(history, candidates) ==
    IF history = <<>> THEN <<>>
    ELSE LET at == IndexOfMidi([i \in 1..Len(candidates) |->
                                   [midi |-> candidates[i].midiNoteNumber]],
                               Head(history).midiNote)
         IN (IF isStable(Head(history)) /\ at > 0
             THEN <<candidates[at]>> ELSE <<>>)
            \o stableNotes(Tail(history), candidates)

\* PitchDetector::updateNoteStability: the new history and the notes pushed
\* into detectedNotes_ before the final sort.
updateNoteStability(history, candidates) ==
    LET counted == countCandidates(history, candidates)
        kept    == eraseAbsent(counted, candidates)
    IN [noteHistory |-> kept, pushed |-> stableNotes(kept, candidates)]

\* ------------------------------------------------------- multi-peak analysis

\* First loop of findPeaks: the local maxima above the threshold, bin order.
localMaxima(mags, magnitudeThreshold) ==
    LET isPeak(i) == /\ lessThan(magnitudeThreshold, mags[i])
                     /\ mags[i] > mags[i - 1]
                     /\ mags[i] > mags[i + 1]
        bins == {i \in 4..(binCount(mags) - 2) : isPeak(i)}
        RECURSIVE Ascending(_, _)
        Ascending(i, acc) ==
            IF i > binCount(mags) - 2 THEN acc
            ELSE Ascending(i + 1,
                    IF i \in bins
                    THEN Append(acc, [magnitude |-> mags[i], bin |-> i])
                    ELSE acc)
    IN Ascending(4, <<>>)

\* PitchDetector::findPeaks: the bins of the maxPolyphony_ strongest peaks,
\* strongest first; the set holds every order the sort may produce.
findPeaks(mags, magnitudeThreshold) ==
    {[i \in 1..Min(Len(order), maxPolyphony_) |-> order[i].bin] :
        order \in DescendingOrders(localMaxima(mags, magnitudeThreshold))}

\* std::sort of the peak indices: ascending bins.
RECURSIVE AscendingSeq(_)
AscendingSeq(S) ==
    IF S = {} THEN <<>>
    ELSE LET lowest == CHOOSE x \in S : \A y \in S : x <= y
         IN <<lowest>> \o AscendingSeq(S \ {lowest})

\* std::abs(frequency - lowerFreq * harmonic) < lowerFreq * 0.1f for a
\* harmonic in 2..4, both frequencies being bin * sampleRate_ / fftSize_.
isHarmonicOf_m(peakIndex, lowerPeakIndex, sampleRate) ==
    \E harmonic \in 2..3 :
        10 * Abs(peakIndex * sampleRate - harmonic * lowerPeakIndex * sampleRate)
            < lowerPeakIndex * sampleRate
isHarmonicOf(peakIndex, lowerPeakIndex, sampleRate) ==
    \E harmonic \in 2..4 :
        10 * Abs(peakIndex * sampleRate - harmonic * lowerPeakIndex * sampleRate)
            < lowerPeakIndex * sampleRate

\* The harmonic filter: peaks in ascending order, each kept unless it is a
\* harmonic of a peak kept before it.
RECURSIVE harmonicFilter(_, _, _)
harmonicFilter(peaksByFrequency, filteredPeakIndices, sampleRate) ==
    IF peaksByFrequency = <<>> THEN filteredPeakIndices
    ELSE LET peakIndex == Head(peaksByFrequency)
             isHarmonic ==
                 \E i \in 1..Len(filteredPeakIndices) :
                     isHarmonicOf(peakIndex, filteredPeakIndices[i], sampleRate)
         IN harmonicFilter(Tail(peaksByFrequency),
                IF isHarmonic THEN filteredPeakIndices
                ELSE Append(filteredPeakIndices, peakIndex),
                sampleRate)

\* The conversion loop: refine, classify, push, stop at maxPolyphony_ notes.
RECURSIVE peaksToNotes(_, _, _, _)
peaksToNotes(mags, filteredPeakIndices, notes, sampleRate) ==
    IF filteredPeakIndices = <<>> \/ Len(notes) >= maxPolyphony_ THEN notes
    ELSE LET peakIndex == Head(filteredPeakIndices)
             frequency ==
                 binToFrequency(parabolicRefine(mags, peakIndex), sampleRate)
             midiNote == frequencyToMidiNote(frequency)
         IN peaksToNotes(mags, Tail(filteredPeakIndices),
                IF midiNote < 0 \/ midiNote > 127 THEN notes
                ELSE Append(notes,
                        [noteName       |-> midiNoteToNameOctave(midiNote),
                         frequency      |-> frequency,
                         magnitude      |-> mags[peakIndex],
                         midiNoteNumber |-> midiNote]),
                sampleRate)

\* The relative threshold: erase the notes below strongest * 0.4f.
pruneWeak_m(notes) ==
    IF notes = <<>> THEN notes
    ELSE SelectSeq(notes,
            LAMBDA n : ~(10 * n.magnitude <= 4 * notes[1].magnitude))
pruneWeak(notes) ==
    IF notes = <<>> THEN notes
    ELSE SelectSeq(notes,
            LAMBDA n : ~(10 * n.magnitude < 4 * notes[1].magnitude))

\* The notes pushed by the multi-peak performFFTAnalysis before its sort,
\* one sequence per order findPeaks may return.
multiPushed(mags, magnitudeThreshold, sampleRate) ==
    {peaksToNotes(mags,
         harmonicFilter(AscendingSeq(Range(peakIndices)), <<>>, sampleRate),
         <<>>, sampleRate) :
        peakIndices \in findPeaks(mags, magnitudeThreshold)}


\* ------------------------------------------------------------ initial state

ZeroBuffer == [idx \in 0..(fftSize_ - 1) |-> 0]

NoRun == [midi |-> -1, n |-> 0]

\* The observation of a detector call that is not processAudioBlock.
Call(op) ==
    [op |-> op, block |-> <<>>, gated |-> FALSE, pendingBefore |-> 0,
     writeAt |-> 0, stored |-> 0, pendingAfterWrite |-> 0, cycles |-> 0,
     consumed |-> 0, hadNotes |-> FALSE, wroteAt |-> {}, readAt |-> {},
     frame |-> <<>>]

\* The producer's locals: while performFFTAnalysis rebuilds detectedNotes_,
\* `before` is the list at the start of the call and `rebuild` the values the
\* list still has to take, one per write; noteName and differs are the
\* strongest note's name and the outcome of its comparison in processBlock.
NoLocals ==
    [before |-> <<>>, rebuild |-> <<>>, noteName |-> <<>>, differs |-> TRUE]

\* No argument drawn for a function applied on its own.
NoArgument == [kind |-> "none"]

NoObs ==
    [read |-> <<>>, readInCall |-> FALSE, callBefore |-> <<>>,
     callAfter |-> <<>>, stopReturned |-> FALSE,
     given |-> NoArgument, applied |-> FALSE, got |-> <<>>, heard |-> <<>>,
     arrived |-> <<>>, due |-> <<>>]

\* The state after construction of a processor with the given extractor;
\* with a non-empty sequence in `sessions`, the state of a recording in
\* progress that has collected that sequence; with `arguments`, the argument
\* one of the detector's functions is about to be applied to.
InitGiven(policies, sessions, arguments) ==
    /\ policy \in policies
    /\ sampleRate_ = 44100
    /\ expectedBlockSize_ = 512
    /\ fifo_ = fifoReset
    /\ fifoBuffer_ = ZeroBuffer
    /\ pastEnd_ = junk
    /\ detectedNotes_ = <<>>
    /\ candidateNotes_ = <<>>
    /\ noteHistory_ = <<>>
    /\ magnitudeThreshold_ = 20
    /\ noiseGateThreshold_ = 1
    /\ isActive_ = FALSE
    /\ audioActive = FALSE
    /\ recordedNotes_ \in sessions
    /\ isRecording_ = (recordedNotes_ # <<>>)
    /\ lastRecordedNote_ = IF recordedNotes_ = <<>> THEN <<>>
                           ELSE recordedNotes_[Len(recordedNotes_)]
    /\ detectedKey_ = <<>>
    /\ recordingLock_ = "free"
    /\ pcAudio = "idle"
    /\ pcCtrl = "idle"
    /\ audioLocal = NoLocals
    /\ stopResult = <<>>
    /\ currentNotes_ = <<>>
    /\ last = Call("construct")
    /\ candRun = NoRun
    /\ \E argument \in arguments : obs = [NoObs EXCEPT !.given = argument]

InitWith(policies, sessions) == InitGiven(policies, sessions, {NoArgument})

Init == InitWith({"mono", "multi"}, {<<>>})

\* --------------------------------------------------------- detector: inputs

\* Spectra that are zero outside `bins`, with at most `k` non-zero bins.
SparseSpectra(bins, values, k) ==
    {m \in [0..(NumBins - 1) -> values \cup {0}] :
        /\ \A i \in 0..(NumBins - 1) : i \notin bins => m[i] = 0
        /\ Cardinality({i \in bins : m[i] # 0}) <= k}

\* Blocks of one value; the empty block stands for a call with a null
\* pointer or numSamples <= 0.
ConstantBlocks(lengths, values) ==
    {[i \in 1..n |-> v] : n \in lengths, v \in values}

\* Blocks whose i-th sample is base + i, so that the order of the samples
\* shows in the storage.
RampBlocks(lengths, base) == {[i \in 1..n |-> base + i] : n \in lengths}

\* ------------------------------------------------------- detector: handlers

\* juce::jlimit(0.0f, 1.0f, threshold)
jlimit(lo, hi, x) ==
    IF lessThan(x, lo) THEN lo ELSE IF lessThan(hi, x) THEN hi ELSE x

\* PitchDetector::reset
ResetState_m ==
    /\ fifoBuffer_' = ZeroBuffer
    /\ fifo_' = fifoReset
    /\ detectedNotes_' = <<>>
    /\ candidateNotes_' = <<>>
    /\ isActive_' = FALSE
    /\ candRun' = NoRun
    /\ UNCHANGED <<policy, pastEnd_, noteHistory_, magnitudeThreshold_,
                   noiseGateThreshold_>>
ResetState ==
    /\ fifoBuffer_' = ZeroBuffer
    /\ fifo_' = fifoReset
    /\ detectedNotes_' = <<>>
    /\ candidateNotes_' = <<>>
    /\ noteHistory_' = <<>>
    /\ isActive_' = FALSE
    /\ candRun' = NoRun
    /\ UNCHANGED <<policy, pastEnd_, magnitudeThreshold_, noiseGateThreshold_>>

\* The observation of a reset() or prepare(): what the call found pending
\* and published.
Cleared(op) ==
    [Call(op) EXCEPT !.pendingBefore = getNumReady(fifo_),
                     !.hadNotes = detectedNotes_ # <<>>]

\* The observation of the samples submitted is switched on.
Framing == [kind |-> "samples"]

\* The samples submitted and not yet in a frame, in arrival order, and the
\* frame they were due to fill, after the block audioData and `cycles`
\* analysis cycles (observation; `arrived` is capped at one frame, which is
\* more than the buffer holds when a call returns).
Arrive(o, audioData, cycles) ==
    LET all == o.arrived \o audioData
        rest == IF cycles > 0 /\ Len(all) >= fftSize_
                THEN SubSeq(all, fftSize_ + 1, Len(all)) ELSE all
    IN IF o.given # Framing THEN o
       ELSE [o EXCEPT
               !.due = IF cycles > 0 THEN SubSeq(all, 1, Min(fftSize_, Len(all)))
                       ELSE <<>>,
               !.arrived = SubSeq(rest, 1, Min(fftSize_, Len(rest)))]

\* reset() discards the samples that have not reached a frame.
Forget(o) == [o EXCEPT !.arrived = <<>>, !.due = <<>>]

Reset ==
    /\ pcAudio = "idle"
    /\ ResetState
    /\ last' = Cleared("reset")
    /\ obs' = Forget(obs)
    /\ UNCHANGED <<sampleRate_, expectedBlockSize_>>
    /\ UNCHANGED <<recordingVars, controlVars>>

\* PitchDetector::prepare
Prepare(sampleRate, expectedBlockSize) ==
    /\ pcAudio = "idle"
    /\ sampleRate_' = sampleRate
    /\ expectedBlockSize_' = expectedBlockSize
    /\ ResetState
    /\ last' = Cleared("prepare")
    /\ obs' = Forget(obs)
    /\ UNCHANGED <<recordingVars, controlVars>>

\* PitchDetector::setMagnitudeThreshold
SetMagnitudeThreshold(threshold) ==
    /\ pcAudio = "idle"
    /\ magnitudeThreshold_' = jlimit(0, 1000, threshold)
    /\ last' = Call("setMagnitudeThreshold")
    /\ UNCHANGED <<policy, sampleRate_, expectedBlockSize_, fifo_, fifoBuffer_,
                   pastEnd_, detectedNotes_, candidateNotes_, noteHistory_,
                   noiseGateThreshold_, isActive_>>
    /\ UNCHANGED <<recordingVars, controlVars, candRun, obs>>

\* PitchDetector::setNoiseGateThreshold
SetNoiseGateThreshold(threshold) ==
    /\ pcAudio = "idle"
    /\ noiseGateThreshold_' = jlimit(0, 1000, threshold)
    /\ last' = Call("setNoiseGateThreshold")
    /\ UNCHANGED <<policy, sampleRate_, expectedBlockSize_, fifo_, fifoBuffer_,
                   pastEnd_, detectedNotes_, candidateNotes_, noteHistory_,
                   magnitudeThreshold_, isActive_>>
    /\ UNCHANGED <<recordingVars, controlVars, candRun, obs>>

\* The run of equal candidates after a cycle with the given candidates.
NextRun(run, candidates) ==
    IF candidates = <<>> THEN NoRun
    ELSE IF run.midi = candidates[1].midiNoteNumber
         THEN [run EXCEPT !.n = Min(@ + 1, MaxConsecutive + 1)]
         ELSE [midi |-> candidates[1].midiNoteNumber, n |-> 1]

\* The argument test of processAudioBlock; a null pointer is modelled as the
\* empty block.
invalidBlock_m(numSamples) == FALSE
invalidBlock(numSamples) == numSamples <= 0

\* The noise-gate test of processAudioBlock.
belowGate_m(rms, threshold) == FALSE
belowGate_tenth(rms, threshold) == rms * 10 < threshold
belowGate(rms, threshold) == lessThan(rms, threshold)

\* The values detectedNotes_ takes after the clear that starts a rebuild:
\* one per push_back, then the sorted list and, in the multi-peak build, the
\* pruned one.
rebuildSteps(pushed, sorted, final) ==
    [i \in 1..Len(pushed) |-> SubSeq(pushed, 1, i)] \o <<sorted>>
        \o (IF policy = "multi" THEN <<final>> ELSE <<>>)

\* The writes of detectedNotes_ in a rebuild: all of them within the call,
\* or, when `stepwise`, the clear now and the others in later steps of the
\* producer.
Publish(stepwise, resume, pushed, sorted, final) ==
    IF stepwise
    THEN /\ detectedNotes_' = <<>>
         /\ audioLocal' = [audioLocal EXCEPT
                              !.before = detectedNotes_,
                              !.rebuild = rebuildSteps(pushed, sorted, final)]
         /\ pcAudio' = "rebuild"
    ELSE /\ detectedNotes_' = final
         /\ pcAudio' = resume
         /\ UNCHANGED audioLocal

\* The extraction and publication part of performFFTAnalysis on the
\* spectrum `mags`: both builds, each with its final sort.
AnalyseSpectrum(mags, stepwise, resume) ==
    IF policy = "mono"
    THEN LET candidates ==
                 monoCandidates(mags, magnitudeThreshold_, sampleRate_)
             update == updateNoteStability(noteHistory_, candidates)
         IN /\ \A i \in 1..Len(update.noteHistory) :
                  update.noteHistory[i].consecutiveFrames <= MaxConsecutive
            /\ candidateNotes_' = candidates
            /\ noteHistory_' = update.noteHistory
            /\ \E sorted \in sortNotes(update.pushed) :
                  Publish(stepwise, resume, update.pushed, sorted, sorted)
            /\ candRun' = NextRun(candRun, candidates)
    ELSE /\ \E pushed \in multiPushed(mags, magnitudeThreshold_, sampleRate_) :
              \E sorted \in sortNotes(pushed) :
                  Publish(stepwise, resume, pushed, sorted, pruneWeak(sorted))
         /\ UNCHANGED <<candidateNotes_, noteHistory_, candRun>>

\* PitchDetector::processAudioBlock on the block audioData; the spectrum of
\* a completed frame is drawn from `spectra`.  `resume` is where the caller
\* continues when the call has returned.
ProcessAudioBlock(audioData, spectra, stepwise, resume) ==
    LET numSamples == Len(audioData)
        seen == [Call("processAudioBlock") EXCEPT
                    !.block = audioData,
                    !.pendingBefore = getNumReady(fifo_),
                    !.writeAt = fifo_.validEnd,
                    !.hadNotes = detectedNotes_ # <<>>]
    IN
    /\ UNCHANGED <<policy, sampleRate_, expectedBlockSize_,
                   magnitudeThreshold_, noiseGateThreshold_>>
    /\ IF invalidBlock(numSamples)
       THEN /\ last' = seen
            /\ pcAudio' = resume
            /\ UNCHANGED <<fifo_, fifoBuffer_, pastEnd_, detectedNotes_,
                           candidateNotes_, noteHistory_, isActive_, candRun,
                           audioLocal>>
       ELSE IF belowGate(calculateRMS(audioData), noiseGateThreshold_)
       THEN /\ isActive_' = FALSE
            /\ detectedNotes_' = <<>>
            /\ last' = [seen EXCEPT !.gated = TRUE]
            /\ pcAudio' = resume
            /\ UNCHANGED <<fifo_, fifoBuffer_, pastEnd_, candidateNotes_,
                           noteHistory_, candRun, audioLocal>>
       ELSE LET w == prepareToWrite(fifo_, numSamples)
                written == finishedWrite(fifo_, w.size1 + w.size2)
                wrote == [seen EXCEPT
                            !.stored = w.size1 + w.size2,
                            !.wroteAt = Region(w),
                            !.pendingAfterWrite = getNumReady(written)]
            IN /\ isActive_' = TRUE
               /\ fifoBuffer_' = CopyIn(fifoBuffer_, audioData, w)
               /\ \E kept \in IF WrittenFrom(w, fftSize_) > 0
                              THEN BOOLEAN ELSE {TRUE} :
                      pastEnd_' = CopyPast(pastEnd_, audioData, w, kept)
               /\ IF enoughSamples(written)
                  THEN LET r == prepareToRead(written, fftSize_)
                       IN /\ fifo_' = finishedRead(written, r.size1 + r.size2)
                          /\ last' = [wrote EXCEPT
                                        !.cycles = @ + 1,
                                        !.consumed = r.size1 + r.size2,
                                        !.readAt = Region(r),
                                        !.frame = ReadFrame(fifoBuffer_',
                                                            pastEnd_', r)]
                          /\ \E mags \in spectra :
                                AnalyseSpectrum(mags, stepwise, resume)
                  ELSE /\ fifo_' = written
                       /\ last' = wrote
                       /\ pcAudio' = resume
                       /\ UNCHANGED <<detectedNotes_, candidateNotes_,
                                      noteHistory_, candRun, audioLocal>>

\* A processAudioBlock call made directly on the detector.
SubmitBlock(blocks, spectra) ==
    /\ pcAudio = "idle"
    /\ \E audioData \in blocks :
          /\ ProcessAudioBlock(audioData, spectra, FALSE, "idle")
          /\ obs' = Arrive(obs, audioData, last'.cycles)
    /\ UNCHANGED <<recordingVars, pcCtrl, currentNotes_>>

DetectorNext(blocks, spectra, thresholds, rates) ==
    \/ \E sampleRate \in rates : Prepare(sampleRate, 256)
    \/ Reset
    \/ \E threshold \in thresholds : SetMagnitudeThreshold(threshold)
    \/ \E threshold \in thresholds : SetNoiseGateThreshold(threshold)
    \/ SubmitBlock(blocks, spectra)

\* Whole frames, silent or loud, and the empty block.
MainBlocks == ConstantBlocks({0, FrameSize}, {0, 600})

MainSpectra == SparseSpectra({4, 6}, {30, 60}, 2)

Next == DetectorNext(MainBlocks, MainSpectra, {1500}, {330})

Spec == Init /\ [][Next]_vars

\* ------------------------------------- the ring buffer under partial blocks

\* Blocks of every length up to one more than a frame; the i-th sample of a
\* block is 100 + i.
FifoBlocks == RampBlocks(0..(FrameSize + 1), 100)

FifoSpectra == SparseSpectra({4}, {60}, 1)

FifoNext == DetectorNext(FifoBlocks, FifoSpectra, {1000}, {330})

SpecFifo == InitWith({"mono"}, {<<>>}) /\ [][FifoNext]_vars

\* Loud blocks no longer than a frame, with the samples submitted observed.
FrameBlocks == RampBlocks(1..FrameSize, 100)

FrameNext ==
    \/ Prepare(330, 256)
    \/ Reset
    \/ SubmitBlock(FrameBlocks, FifoSpectra)

SpecFrames == InitGiven({"mono"}, {<<>>}, {Framing}) /\ [][FrameNext]_vars

\* Whole loud frames.
PolyBlocks == ConstantBlocks({FrameSize}, {600})

\* The peaks of the wide spectra: five bins none of which is a harmonic of
\* another, with magnitudes that differ and lie within 40% of the strongest.
PolyPeaks == <<[bin |-> 4, magnitude |-> 52], [bin |-> 6, magnitude |-> 60],
               [bin |-> 9, magnitude |-> 54], [bin |-> 11, magnitude |-> 58],
               [bin |-> 13, magnitude |-> 56]>>

\* Spectra of PolyBins bins: silence, one of the peaks, or all five.
PolySpectra ==
    {[i \in 0..(PolyBins - 1) |->
        IF \E k \in on : PolyPeaks[k].bin = i
        THEN PolyPeaks[CHOOSE k \in on : PolyPeaks[k].bin = i].magnitude
        ELSE 0] :
        on \in {{}, 1..Len(PolyPeaks)} \cup {{k} : k \in 1..Len(PolyPeaks)}}

PolyNext == DetectorNext(PolyBlocks, PolySpectra, {1500}, {330})

SpecPoly == InitWith({"multi"}, {<<>>}) /\ [][PolyNext]_vars

\* ------------------------------------------------------------ key estimator

IsDigit(c) == c \in {"0", "1", "2", "3", "4", "5", "6", "7", "8", "9"}

\* The characters of noteName before its first digit.
RECURSIVE noteOnlyOf(_)
noteOnlyOf(noteName) ==
    IF noteName = <<>> \/ IsDigit(Head(noteName)) THEN <<>>
    ELSE <<Head(noteName)>> \o noteOnlyOf(Tail(noteName))

\* MonolithMaestroProcessor::noteToPitchClass
noteToPitchClass(noteName) ==
    LET noteOnly == noteOnlyOf(noteName)
    IN IF noteName = <<>> THEN -1
       ELSE IF noteOnly = <<"C">> THEN 0
       ELSE IF noteOnly = <<"C", "#">> \/ noteOnly = <<"D", "b">> THEN 1
       ELSE IF noteOnly = <<"D">> THEN 2
       ELSE IF noteOnly = <<"D", "#">> \/ noteOnly = <<"E", "b">> THEN 3
       ELSE IF noteOnly = <<"E">> THEN 4
       ELSE IF noteOnly = <<"F">> THEN 5
       ELSE IF noteOnly = <<"F", "#">> \/ noteOnly = <<"G", "b">> THEN 6
       ELSE IF noteOnly = <<"G">> THEN 7
       ELSE IF noteOnly = <<"G", "#">> \/ noteOnly = <<"A", "b">> THEN 8
       ELSE IF noteOnly = <<"A">> THEN 9
       ELSE IF noteOnly = <<"A", "#">> \/ noteOnly = <<"B", "b">> THEN 10
       ELSE IF noteOnly = <<"B">> THEN 11
       ELSE -1

\* MonolithMaestroProcessor::pitchClassToNoteName
pitchClassToNoteName(pitchClass) ==
    IF pitchClass >= 0 /\ pitchClass < 12 THEN noteNames_[pitchClass + 1]
    ELSE <<"?">>

\* The pitchClassCounts array of analyzeKey.
pitchClassCounts(notes) ==
    [pc \in 0..11 |->
        Cardinality({i \in 1..Len(notes) : noteToPitchClass(notes[i]) = pc})]

majorScale_m == <<0, 2, 4, 5, 7, 9, 10>>
majorScale == <<0, 2, 4, 5, 7, 9, 11>>
minorScale_m == <<0, 2, 3, 5, 7, 8, 11>>
minorScale == <<0, 2, 3, 5, 7, 8, 10>>

inScale(pc, root, scale) ==
    \E k \in 1..Len(scale) : pc = (root + scale[k]) % 12

\* The score analyzeKey gives the key (root, scale): two per note of the
\* scale, minus one per note outside it.
scaleScore_m(counts, root, scale) ==
    SumSeq([k \in 1..Len(scale) |-> counts[(root + scale[k]) % 12]])
      - SumSeq([i \in 1..12 |->
                  IF inScale(i - 1, root, scale) THEN 0 ELSE counts[i - 1]])
scaleScore(counts, root, scale) ==
    SumSeq([k \in 1..Len(scale) |-> counts[(root + scale[k]) % 12] * 2])
      - SumSeq([i \in 1..12 |->
                  IF inScale(i - 1, root, scale) THEN 0 ELSE counts[i - 1]])

\* The candidates in the order analyzeKey visits them: for each root, the
\* major key and then the minor key.
keyCandidates ==
    [n \in 1..24 |->
        [root  |-> (n - 1) \div 2,
         scale |-> IF n % 2 = 1 THEN majorScale ELSE minorScale,
         mode  |-> IF n % 2 = 1 THEN " Major" ELSE " Minor"]]

\* The comparison of analyzeKey's two "if (score > bestScore)".
replacesBest_m(score, bestScore) == score >= bestScore
replacesBest_lt(score, bestScore) == score < bestScore
replacesBest(score, bestScore) == score > bestScore

\* The loop of analyzeKey from candidate n on: a candidate replaces the best
\* only with a strictly greater score.
RECURSIVE scanKeys(_, _, _)
scanKeys(counts, n, best) ==
    IF n > Len(keyCandidates) THEN best
    ELSE LET c == keyCandidates[n]
             score == scaleScore(counts, c.root, c.scale)
         IN scanKeys(counts, n + 1,
                IF replacesBest(score, best.bestScore)
                THEN [bestScore |-> score,
                      bestKey   |-> pitchClassToNoteName(c.root) \o <<c.mode>>]
                ELSE best)

\* MonolithMaestroProcessor::analyzeKey
analyzeKey(notes) ==
    IF notes = <<>> THEN [bestScore |-> -1000, bestKey |-> <<"Unknown">>]
    ELSE scanKeys(pitchClassCounts(notes), 1,
                  [bestScore |-> -1000, bestKey |-> <<"Unknown">>])

\* ------------------------------------------------------ recording controller

\* juce::ScopedLock on recordingLock_: the constructor returns once no other
\* thread owns the CriticalSection.
canEnter_m(owner) == TRUE
canEnter(owner) == owner = "free"

\* The key stopRecording stores for the recording it finds.
keyOnStop_m(notes) == analyzeKey(notes).bestKey
keyOnStop(notes) ==
    IF notes # <<>> THEN analyzeKey(notes).bestKey
    ELSE <<"No notes recorded">>

\* MonolithMaestroProcessor::prepareToPlay: prepare, then the two setters
\* with the values the detector was constructed with.
PrepareToPlay(sampleRate, samplesPerBlock) ==
    /\ noiseGateThreshold_ = jlimit(0, 1000, 1)
    /\ magnitudeThreshold_ = jlimit(0, 1000, 20)
    /\ Prepare(sampleRate, samplesPerBlock)

\* processBlock, first part: the detector's processAudioBlock on channel 0.
ProcessBlockDetect(blocks, spectra) ==
    /\ pcAudio = "idle"
    /\ Len(recordedNotes_) < MaxRecorded
    /\ \E audioData \in blocks :
          ProcessAudioBlock(audioData, spectra, FALSE, "detected")
    /\ UNCHANGED <<recordingVars, pcCtrl, currentNotes_, obs>>

\* The observation of the labels processBlock finds is switched on.
Listening == [kind |-> "labels"]

\* The labels processBlock has found published while isRecording_ was set,
\* consecutive equal labels collapsed, after one more label (observation;
\* capped one past MaxRecorded).
Heard(heard, noteName) ==
    IF heard # <<>> /\ heard[Len(heard)] = noteName THEN heard
    ELSE IF Len(heard) > MaxRecorded THEN heard
    ELSE Append(heard, noteName)

\* processBlock: audioActive, the load of isRecording_ and the copy of the
\* published notes; the strongest note's name is kept for the comparison.
ProcessBlockLoad ==
    /\ pcAudio = "detected"
    /\ audioActive' = isActive_
    /\ IF isRecording_ /\ detectedNotes_ # <<>>
       THEN /\ audioLocal' = [audioLocal EXCEPT
                                 !.noteName = detectedNotes_[1].noteName]
            /\ obs' = [obs EXCEPT
                          !.heard = IF obs.given = Listening
                                    THEN Heard(@, detectedNotes_[1].noteName)
                                    ELSE @]
            /\ pcAudio' = "compare"
       ELSE /\ pcAudio' = "idle"
            /\ UNCHANGED <<audioLocal, obs>>
    /\ UNCHANGED <<detectorVars, isRecording_, recordedNotes_,
                   lastRecordedNote_, detectedKey_, recordingLock_,
                   stopResult, pcCtrl, currentNotes_, last, candRun>>

\* processBlock with no input channel.
ProcessBlockNoInput ==
    /\ pcAudio = "idle"
    /\ audioActive' = FALSE
    /\ UNCHANGED <<detectorVars, isRecording_, recordedNotes_,
                   lastRecordedNote_, detectedKey_, recordingLock_,
                   stopResult, controlVars, observerVars>>

\* noteName != lastRecordedNote_
differsFromLast_m(noteName, lastRecorded) == TRUE
differsFromLast(noteName, lastRecorded) == noteName # lastRecorded

\* processBlock: the comparison with lastRecordedNote_, read without the
\* lock; while startRecording is writing lastRecordedNote_ the read races
\* with the write and the comparison can go either way.
ProcessBlockCompare ==
    /\ pcAudio = "compare"
    /\ \E differs \in
            IF pcCtrl = "startClearLast" THEN BOOLEAN
            ELSE {differsFromLast(audioLocal.noteName, lastRecordedNote_)} :
          /\ audioLocal' = [audioLocal EXCEPT !.differs = differs]
          /\ pcAudio' = IF differs THEN "lock" ELSE "idle"
    /\ UNCHANGED <<detectorVars, recordingVars, pcCtrl, currentNotes_,
                   observerVars>>

\* processBlock: the ScopedLock on recordingLock_ is entered.
ProcessBlockLock ==
    /\ pcAudio = "lock"
    /\ canEnter(recordingLock_)
    /\ recordingLock_' = "audio"
    /\ pcAudio' = "locked"
    /\ UNCHANGED <<detectorVars, audioActive, isRecording_, recordedNotes_,
                   lastRecordedNote_, detectedKey_, stopResult, pcCtrl,
                   audioLocal, currentNotes_, observerVars>>

\* processBlock: push_back, lastRecordedNote_ and the end of the lock's scope.
ProcessBlockAppend ==
    /\ pcAudio = "locked"
    /\ recordedNotes_' = Append(recordedNotes_, audioLocal.noteName)
    /\ lastRecordedNote_' = audioLocal.noteName
    /\ recordingLock_' = "free"
    /\ pcAudio' = "idle"
    /\ UNCHANGED <<detectorVars, audioActive, isRecording_, detectedKey_,
                   stopResult, pcCtrl, audioLocal, currentNotes_,
                   observerVars>>

\* The control context leaves everything but the recording state alone.
ControlFrame ==
    UNCHANGED <<detectorVars, audioActive, pcAudio, audioLocal,
                currentNotes_, last, candRun>>

\* startRecording() is called and reaches its ScopedLock.
StartCall ==
    /\ pcCtrl = "idle"
    /\ pcCtrl' = "startLock"
    /\ obs' = [obs EXCEPT !.stopReturned = FALSE]
    /\ ControlFrame
    /\ UNCHANGED <<isRecording_, recordedNotes_, lastRecordedNote_,
                   detectedKey_, recordingLock_, stopResult>>

StartLock ==
    /\ pcCtrl = "startLock"
    /\ canEnter(recordingLock_)
    /\ recordingLock_' = "ctrl"
    /\ pcCtrl' = "startClearRecorded"
    /\ ControlFrame
    /\ UNCHANGED <<isRecording_, recordedNotes_, lastRecordedNote_,
                   detectedKey_, stopResult, obs>>

\* recordedNotes_.clear(); the write of lastRecordedNote_ is next.
StartClearRecorded ==
    /\ pcCtrl = "startClearRecorded"
    /\ recordedNotes_' = <<>>
    /\ obs' = [obs EXCEPT !.heard = <<>>]
    /\ pcCtrl' = "startClearLast"
    /\ ControlFrame
    /\ UNCHANGED <<isRecording_, lastRecordedNote_, detectedKey_,
                   recordingLock_, stopResult>>

\* lastRecordedNote_.clear()
StartClearLast ==
    /\ pcCtrl = "startClearLast"
    /\ lastRecordedNote_' = <<>>
    /\ pcCtrl' = "startStore"
    /\ ControlFrame
    /\ UNCHANGED <<isRecording_, recordedNotes_, detectedKey_,
                   recordingLock_, stopResult, obs>>

\* detectedKey_.clear(), isRecording_.store(true) and the end of the lock's
\* scope.
StartStore ==
    /\ pcCtrl = "startStore"
    /\ detectedKey_' = <<>>
    /\ isRecording_' = TRUE
    /\ recordingLock_' = "free"
    /\ pcCtrl' = "idle"
    /\ ControlFrame
    /\ UNCHANGED <<recordedNotes_, lastRecordedNote_, stopResult, obs>>

\* stopRecording(): isRecording_.store(false), before the lock.
StopStore ==
    /\ pcCtrl = "idle"
    /\ isRecording_' = FALSE
    /\ pcCtrl' = "stopLock"
    /\ ControlFrame
    /\ UNCHANGED <<recordedNotes_, lastRecordedNote_, detectedKey_,
                   recordingLock_, stopResult, obs>>

StopLock ==
    /\ pcCtrl = "stopLock"
    /\ canEnter(recordingLock_)
    /\ recordingLock_' = "ctrl"
    /\ pcCtrl' = "stopAnalyze"
    /\ ControlFrame
    /\ UNCHANGED <<isRecording_, recordedNotes_, lastRecordedNote_,
                   detectedKey_, stopResult, obs>>

\* stopRecording(): the key of the recording.
StopAnalyze ==
    /\ pcCtrl = "stopAnalyze"
    /\ detectedKey_' = keyOnStop(recordedNotes_)
    /\ pcCtrl' = "stopReturn"
    /\ ControlFrame
    /\ UNCHANGED <<isRecording_, recordedNotes_, lastRecordedNote_,
                   recordingLock_, stopResult, obs>>

\* stopRecording(): the returned copy and the end of the lock's scope.
StopReturn ==
    /\ pcCtrl = "stopReturn"
    /\ stopResult' = recordedNotes_
    /\ recordingLock_' = "free"
    /\ pcCtrl' = "idle"
    /\ obs' = [obs EXCEPT !.stopReturned = TRUE]
    /\ ControlFrame
    /\ UNCHANGED <<isRecording_, recordedNotes_, lastRecordedNote_,
                   detectedKey_>>

StartRecording ==
    StartCall \/ StartLock \/ StartClearRecorded \/ StartClearLast \/ StartStore

StopRecording == StopStore \/ StopLock \/ StopAnalyze \/ StopReturn

ProcessBlock(blocks, spectra) ==
    \/ ProcessBlockDetect(blocks, spectra)
    \/ ProcessBlockLoad
    \/ ProcessBlockNoInput
    \/ ProcessBlockCompare
    \/ ProcessBlockLock
    \/ ProcessBlockAppend

RecBlocks == ConstantBlocks({FrameSize}, {600})

\* Spectra with one peak, at bin 4 (an A) or at bin 5 (a C#): recordings of
\* these two notes get different keys as they grow.
RecSpectra ==
    {[i \in 0..(NumBins - 1) |-> IF i = bin THEN 60 ELSE 0] : bin \in {4, 5}}

RecNext ==
    \/ PrepareToPlay(330, 256)
    \/ ProcessBlock(RecBlocks, RecSpectra)
    \/ StartRecording
    \/ StopRecording

SpecRec == InitWith({"multi"}, {<<>>}) /\ [][RecNext]_vars

\* Recording one note and silence, with the labels processBlock finds observed.
HeardSpectra ==
    {[i \in 0..(NumBins - 1) |-> IF i = bin THEN 60 ELSE 0] : bin \in {0, 4}}

HeardNext ==
    \/ PrepareToPlay(330, 256)
    \/ ProcessBlock(RecBlocks, HeardSpectra)
    \/ StartRecording
    \/ StopRecording

SpecHeard == InitGiven({"multi"}, {<<>>}, {Listening}) /\ [][HeardNext]_vars

\* --------------------------------------- key estimation of given recordings

\* The labels the detector gives the notes of one octave: the bare names in
\* the strongest-bin build, the names with their octave in the multi-peak one.
KeyLabels(build) ==
    IF build = "mono" THEN {midiNoteToName(m) : m \in 60..71}
    ELSE {midiNoteToNameOctave(m) : m \in 60..72}

\* C, E, G, D, F, A as the detector labels them.
KeyExample(build) ==
    [i \in 1..6 |->
        LET m == <<60, 64, 67, 62, 65, 69>>[i]
        IN IF build = "mono" THEN midiNoteToName(m)
           ELSE midiNoteToNameOctave(m)]

\* The recordings of one to MaxKeyLen labels a session can have collected,
\* and the example.
KeySessions(build) ==
    {notes \in SeqsOf(KeyLabels(build), 1, MaxKeyLen) :
        \A i \in 1..(Len(notes) - 1) : notes[i] # notes[i + 1]}
      \cup {KeyExample(build)}

InitKey ==
    /\ InitWith({"mono", "multi"},
                KeySessions("mono") \cup KeySessions("multi"))
    /\ recordedNotes_ \in KeySessions(policy)

KeyNext == StopStore \/ StopLock \/ StopAnalyze \/ StopReturn

SpecKey == InitKey /\ [][KeyNext]_vars

\* The seven notes of the n-th key candidate, from its root upwards, as the
\* detector labels them.
ScaleOf(build, n) ==
    [i \in 1..7 |->
        LET m == 60 + ((keyCandidates[n].root + keyCandidates[n].scale[i]) % 12)
        IN IF build = "mono" THEN midiNoteToName(m)
           ELSE midiNoteToNameOctave(m)]

\* A session that has recorded the scale of a key candidate, the candidate
\* being noted, or one of the short recordings (the first candidate noted).
InitScales ==
    /\ InitGiven({"mono", "multi"},
                 UNION {KeySessions(build) \cup
                            {ScaleOf(build, n) : n \in 1..24} :
                        build \in {"mono", "multi"}},
                 {[kind |-> "key", n |-> n] : n \in 1..24})
    /\ \/ recordedNotes_ = ScaleOf(policy, obs.given.n)
       \/ recordedNotes_ \in KeySessions(policy) /\ obs.given.n = 1

SpecScales == InitScales /\ [][KeyNext]_vars

\* ------------------------------- the display polling during a rebuild

\* A processAudioBlock call of the audio thread, up to and including the
\* clear that starts the rebuild of detectedNotes_.
RaceCall(blocks, spectra) ==
    /\ pcAudio = "idle"
    /\ \E audioData \in blocks : ProcessAudioBlock(audioData, spectra, TRUE, "idle")
    /\ UNCHANGED <<recordingVars, pcCtrl, currentNotes_, obs>>

\* The next write of the rebuild: a push_back, the sort or the pruning.
RaceWrite ==
    /\ pcAudio = "rebuild"
    /\ detectedNotes_' = Head(audioLocal.rebuild)
    /\ audioLocal' = [audioLocal EXCEPT !.rebuild = Tail(@)]
    /\ pcAudio' = IF Tail(audioLocal.rebuild) = <<>> THEN "idle" ELSE "rebuild"
    /\ UNCHANGED <<policy, sampleRate_, expectedBlockSize_, fifo_, fifoBuffer_,
                   pastEnd_, candidateNotes_, noteHistory_,
                   magnitudeThreshold_, noiseGateThreshold_, isActive_>>
    /\ UNCHANGED <<recordingVars, pcCtrl, currentNotes_, observerVars>>

\* MonolithMaestroEditor::timerCallback on the message thread: it copies
\* detectedNotes_ through getDetectedNotes(), which takes no lock.
TimerCallback ==
    /\ currentNotes_' = detectedNotes_
    /\ obs' = [obs EXCEPT
                 !.read = detectedNotes_,
                 !.readInCall = (pcAudio = "rebuild"),
                 !.callBefore = audioLocal.before,
                 !.callAfter = IF pcAudio = "rebuild"
                               THEN audioLocal.rebuild[Len(audioLocal.rebuild)]
                               ELSE detectedNotes_]
    /\ UNCHANGED <<detectorVars, recordingVars, pcAudio, pcCtrl, audioLocal,
                   last, candRun>>

RaceBlocks == ConstantBlocks({FrameSize}, {600})

RaceSpectra == SparseSpectra({4, 6}, {60}, 2)

RaceNext ==
    \/ Prepare(330, 256)
    \/ RaceCall(RaceBlocks, RaceSpectra)
    \/ RaceWrite
    \/ TimerCallback

SpecRace == Init /\ [][RaceNext]_vars

\* ------------------------------- the detector's functions on given arguments

\* Bins at which findPeaks can report peaks, chosen to hold exact second,
\* third and fourth harmonics (4-8-12-16, 5-10-20, 11-33), bins one off a
\* harmonic inside the tolerance (11-23) and on its edge (10-19, 10-21),
\* and chains through a discarded peak (4-12-24).
PeakBins == {4, 5, 8, 10, 11, 12, 16, 19, 20, 21, 23, 24, 33}

\* The peakIndices findPeaks can return: one to maxPolyphony_ distinct bins.
PeakSets ==
    {P \in SUBSET PeakBins : Cardinality(P) \in 1..maxPolyphony_}

\* Magnitudes, in thousandths, around 40% of the strongest.
PushedMagnitudes == {1000, 500, 400, 399, 300}

\* The notes the conversion loop can have pushed: one to maxPolyphony_ notes
\* of different pitches.
PushedNotes ==
    {[i \in 1..Len(m) |->
        [noteName       |-> midiNoteToNameOctave(57 + 3 * i),
         frequency      |-> midiNoteToFrequency(57 + 3 * i),
         magnitude      |-> m[i],
         midiNoteNumber |-> 57 + 3 * i]] :
        m \in SeqsOf(PushedMagnitudes, 1, maxPolyphony_)}

\* Frequencies, in tenths of a hertz: zero, and for every range its centre
\* and its two bounds with their neighbours.
GivenFrequencies ==
    {0} \cup UNION {{frequencyMap_[i].centerFrequency}
                      \cup {frequencyMap_[i].minFrequency + d : d \in -1..1}
                      \cup {frequencyMap_[i].maxFrequency + d : d \in -1..1} :
                    i \in 1..Len(frequencyMap_)}

\* Values of the float parameter of the two setters, in thousandths: inside,
\* on the edges of and outside [0, 1], values as large as the infinities,
\* and NaN.
GivenThresholds ==
    {-999999999, -1000, -1, 0, 1, 20, 500, 999, 1000, 1001, 1500, 999999999,
     NaN}

\* Magnitude spectra of five bins, every bin quiet, soft, loud or louder.
GivenSpectra == [0..4 -> {10, 30, 50, 60}]

Arguments ==
    {[kind |-> "peaks", peaks |-> P] : P \in PeakSets}
      \cup {[kind |-> "spectrum", mags |-> m] : m \in GivenSpectra}
      \cup {[kind |-> "notes", notes |-> n] : n \in PushedNotes}
      \cup {[kind |-> "frequency", frequency |-> f] : f \in GivenFrequencies}
      \cup {[kind |-> "threshold", threshold |-> x] : x \in GivenThresholds}

\* A frequency or a spectrum is given to the strongest-bin build, which owns
\* the range table and the strongest-bin search; peaks and notes to the
\* multi-peak build.
InitApply ==
    /\ InitGiven({"mono", "multi"}, {<<>>}, Arguments)
    /\ (policy = "mono") <=> (obs.given.kind \in {"frequency", "spectrum"})

Apply(kind, result) ==
    /\ obs.given.kind = kind
    /\ ~obs.applied
    /\ obs' = [obs EXCEPT !.applied = TRUE, !.got = result]
    /\ UNCHANGED <<detectorVars, recordingVars, controlVars, last, candRun>>

\* performFFTAnalysis of the multi-peak build from the sort of the peak
\* indices to the end of the harmonic filter.
ApplyHarmonicFilter ==
    /\ policy = "multi"
    /\ obs.given.kind = "peaks"
    /\ Apply("peaks",
             harmonicFilter(AscendingSeq(obs.given.peaks), <<>>, sampleRate_))

\* performFFTAnalysis of the multi-peak build from the sort of the pushed
\* notes to the end of the relative threshold.
ApplySortAndPrune ==
    /\ policy = "multi"
    /\ obs.given.kind = "notes"
    /\ \E sorted \in sortNotes(obs.given.notes) :
           Apply("notes", pruneWeak(sorted))

\* findNoteForFrequency of the strongest-bin build.
ApplyFindNote ==
    /\ policy = "mono"
    /\ obs.given.kind = "frequency"
    /\ Apply("frequency", findNoteForFrequency(obs.given.frequency))

\* performFFTAnalysis of the strongest-bin build from the search of the
\* strongest bin to the end of the parabolic interpolation: the strongest bin
\* and the refined peak index, or nothing below the magnitude threshold.
ApplyRefine ==
    /\ policy = "mono"
    /\ obs.given.kind = "spectrum"
    /\ LET strongestBin == strongestBinOf(obs.given.mags)
       IN Apply("spectrum",
                IF lessThan(magnitudeThreshold_, obs.given.mags[strongestBin])
                THEN <<strongestBin,
                       parabolicRefine(obs.given.mags, strongestBin)>>
                ELSE <<>>)

\* setMagnitudeThreshold or setNoiseGateThreshold with the given value.
ApplySetThreshold ==
    /\ obs.given.kind = "threshold"
    /\ \/ SetMagnitudeThreshold(obs.given.threshold)
       \/ SetNoiseGateThreshold(obs.given.threshold)

ApplyNext ==
    \/ ApplyHarmonicFilter
    \/ ApplySortAndPrune
    \/ ApplyFindNote
    \/ ApplyRefine
    \/ ApplySetThreshold

SpecApply == InitApply /\ [][ApplyNext]_vars

\* ------------------------------------------------- properties of the detector

\* C1: strongest-bin build: a MIDI number is published only while it has
\* been the candidate of at least two consecutive analysis cycles (so one
\* that is the candidate of a single cycle never is), and at the end of the
\* second and every later consecutive cycle it is published.
C1_StabilityWindow ==
    policy = "mono" =>
        /\ \A i \in 1..Len(detectedNotes_) :
               /\ detectedNotes_[i].midiNoteNumber = candRun.midi
               /\ candRun.n >= 2
        /\ (last.cycles = 1 /\ candRun.n >= 2) =>
               \E i \in 1..Len(detectedNotes_) :
                   detectedNotes_[i].midiNoteNumber = candRun.midi

C1_Witness ==
    /\ policy = "mono"
    /\ last.cycles = 1
    /\ candRun.n = 3
    /\ detectedNotes_ # <<>>

\* C2: a processAudioBlock call on a non-empty block whose RMS is below the
\* noise-gate threshold leaves isActive false and the published list empty,
\* whatever was published before.
C2_GateSilences ==
    (/\ last.op = "processAudioBlock"
     /\ last.block # <<>>
     /\ calculateRMS(last.block) < noiseGateThreshold_)
        => (~isActive_ /\ detectedNotes_ = <<>>)

C2_Witness ==
    /\ last.op = "processAudioBlock"
    /\ last.gated
    /\ last.hadNotes
    /\ calculateRMS(last.block) > 0
    /\ detectedNotes_ = <<>>

\* C4: in both builds the published list is sorted by non-increasing
\* magnitude after every call.
C4_SortedByMagnitude ==
    \A i \in 1..Len(detectedNotes_) : \A j \in i..Len(detectedNotes_) :
        detectedNotes_[i].magnitude >= detectedNotes_[j].magnitude

C4_Witness ==
    /\ policy = "multi"
    /\ last.cycles = 1
    /\ Len(detectedNotes_) >= 2
    /\ detectedNotes_[1].magnitude > detectedNotes_[2].magnitude
    /\ detectedNotes_[1].frequency > detectedNotes_[2].frequency

\* ---------------------------------------------- properties of the ring buffer

\* The block of the last call passed the noise gate.
PassedGate == last.block # <<>> /\ ~(calculateRMS(last.block) < noiseGateThreshold_)

\* C5: a processAudioBlock call runs one analysis cycle when its block passes
\* the gate and at least FrameSize samples are pending after the write, and
\* none otherwise; a cycle consumes FrameSize samples and leaves none pending.
C5_OneCyclePerCall ==
    last.op = "processAudioBlock" =>
        /\ last.cycles \in {0, 1}
        /\ last.cycles = 1 <=>
               (PassedGate /\ last.pendingAfterWrite >= FrameSize)
        /\ last.cycles = 1 =>
               (last.consumed = FrameSize /\ getNumReady(fifo_) = 0)

C5_Witness ==
    /\ last.op = "processAudioBlock"
    /\ last.cycles = 1
    /\ last.pendingBefore > 0
    /\ last.writeAt > 0
    /\ getNumReady(fifo_) = 0

\* A call whose gate-passing block is longer than the free space.
Overflowed ==
    /\ last.op = "processAudioBlock"
    /\ PassedGate
    /\ Len(last.block) > FrameSize - last.pendingBefore

\* The step of a call that overflows: the block it leaves in `last` passes
\* the gate and is longer than the free space before the step.
OverflowStep ==
    /\ last'.op = "processAudioBlock"
    /\ last'.block # <<>>
    /\ ~(calculateRMS(last'.block) < noiseGateThreshold_)
    /\ Len(last'.block) > FrameSize - getNumReady(fifo_)

\* The samples an overflowing step accepts, and the slot of the k-th one.
Accepted == FrameSize - getNumReady(fifo_)
SlotOf(k) == (fifo_.validEnd + k - 1) % (FrameSize + 1)

\* The storage after the step holds the first Accepted samples of the block
\* in the slots after the write position and is unchanged elsewhere.
StoresPrefixOnly ==
    /\ last'.stored = Accepted
    /\ last'.pendingAfterWrite = FrameSize
    /\ \A idx \in 0..(fftSize_ - 1) :
           IF \E k \in 1..Accepted : SlotOf(k) = idx
           THEN \E k \in 1..Accepted :
                    SlotOf(k) = idx /\ fifoBuffer_'[idx] = last'.block[k]
           ELSE fifoBuffer_'[idx] = fifoBuffer_[idx]

C3_SnapshotIsAtomic ==
    obs.readInCall => obs.read \in {obs.callBefore, obs.callAfter}

\* ----------------------------------------------- properties of the recording

\* C7: the recorded sequence never holds two equal adjacent labels, whatever
\* the interleaving of processBlock with startRecording and stopRecording.
C7_NoAdjacentRepeat ==
    \A i \in 1..(Len(recordedNotes_) - 1) :
        recordedNotes_[i] # recordedNotes_[i + 1]

\* A repeat of the last recorded label has been collapsed during a recording
\* that already holds two labels.
C7_Witness ==
    /\ Len(recordedNotes_) >= 2
    /\ isRecording_
    /\ pcAudio = "idle"
    /\ ~audioLocal.differs
    /\ audioLocal.noteName = recordedNotes_[Len(recordedNotes_)]

\* C8: once stopRecording() has returned, and until startRecording() is
\* called again, no step changes the recorded sequence.
C8_NoAppendAfterStop ==
    [][(obs.stopReturned /\ obs'.stopReturned)
           => recordedNotes_' = recordedNotes_]_vars

\* C9: processBlock never reaches its lock on recordingLock_ while
\* startRecording or stopRecording holds it.
C9_ProducerNeverWaits ==
    ~(pcAudio = "lock" /\ recordingLock_ = "ctrl")

\* --------------------------------------------- properties of the key estimate

\* stopRecording() has returned.
StopDone == pcCtrl = "idle" /\ obs.stopReturned

\* Every label of the recording has its pitch class in the major scale of r.
AllInMajorScale(notes, r) ==
    \A i \in 1..Len(notes) : inScale(noteToPitchClass(notes[i]), r, majorScale)

\* C10: for the recording C, E, G, D, F, A, C Major scores at least as high
\* as every other key and stopRecording reports "C Major"; for any non-empty
\* recording whose pitch classes all lie in the major scale of a root r, the
\* score of (r, major) is twice the length and no key scores higher.
C10_MajorScaleScore ==
    StopDone =>
        LET counts == pitchClassCounts(recordedNotes_)
            n == Len(recordedNotes_)
        IN /\ recordedNotes_ = KeyExample(policy) =>
                  /\ detectedKey_ = <<"C", " Major">>
                  /\ \A k \in 1..Len(keyCandidates) :
                         scaleScore(counts, 0, majorScale) >=
                             scaleScore(counts, keyCandidates[k].root,
                                        keyCandidates[k].scale)
           /\ \A r \in 0..11 :
                  (n > 0 /\ AllInMajorScale(recordedNotes_, r)) =>
                      /\ scaleScore(counts, r, majorScale) = 2 * n
                      /\ analyzeKey(recordedNotes_).bestScore = 2 * n
                      /\ \A k \in 1..Len(keyCandidates) :
                             scaleScore(counts, keyCandidates[k].root,
                                        keyCandidates[k].scale) <= 2 * n

C10_Witness ==
    /\ StopDone
    /\ recordedNotes_ = KeyExample(policy)
    /\ stopResult = recordedNotes_
    /\ detectedKey_ = <<"C", " Major">>

\* The name analyzeKey gives the k-th candidate.
KeyName(k) ==
    pitchClassToNoteName(keyCandidates[k].root) \o <<keyCandidates[k].mode>>

\* The score of the k-th candidate for a recording.
CandidateScore(notes, k) ==
    scaleScore(pitchClassCounts(notes), keyCandidates[k].root,
               keyCandidates[k].scale)

\* The first candidate, in the order of evaluation, that no candidate beats.
FirstBest(notes) ==
    CHOOSE k \in 1..Len(keyCandidates) :
        /\ \A j \in 1..Len(keyCandidates) :
               CandidateScore(notes, j) <= CandidateScore(notes, k)
        /\ \A j \in 1..(k - 1) :
               CandidateScore(notes, j) < CandidateScore(notes, k)

\* The recording read backwards: another sequence with the same histogram.
Reversed(notes) == [i \in 1..Len(notes) |-> notes[Len(notes) + 1 - i]]

\* C11: when several of the 24 candidates share the maximal score, the key
\* stopRecording reports is the one evaluated first (roots ascending from C,
\* major before minor); that candidate is determined by the pitch-class
\* histogram alone, so the recording read backwards gets the same key.
C11_FirstOfTiedKeys ==
    (StopDone /\ recordedNotes_ # <<>>) =>
        /\ detectedKey_ = KeyName(FirstBest(recordedNotes_))
        /\ pitchClassCounts(Reversed(recordedNotes_)) =
               pitchClassCounts(recordedNotes_)
        /\ analyzeKey(Reversed(recordedNotes_)).bestKey = detectedKey_

\* A recording of two notes for which a later candidate ties with the
\* reported one.
C11_Witness ==
    /\ StopDone
    /\ Len(recordedNotes_) = 2
    /\ \E j \in 1..Len(keyCandidates) :
           /\ j > FirstBest(recordedNotes_)
           /\ CandidateScore(recordedNotes_, j) =
                  CandidateScore(recordedNotes_, FirstBest(recordedNotes_))
    /\ detectedKey_ = KeyName(FirstBest(recordedNotes_))

\* The seven-note templates as sets of intervals above the root.
MajorTemplate == {0, 2, 4, 5, 7, 9, 11}
MinorTemplate == {0, 2, 3, 5, 7, 8, 10}

\* The 24 (root, mode) candidates under the names stopRecording reports.
NamedKeys ==
    {[root |-> r, template |-> MajorTemplate,
      name |-> pitchClassToNoteName(r) \o <<" Major">>] : r \in 0..11}
      \cup
    {[root |-> r, template |-> MinorTemplate,
      name |-> pitchClassToNoteName(r) \o <<" Minor">>] : r \in 0..11}

\* Two per recorded note whose pitch class lies in the template of the key,
\* minus one per recorded note whose pitch class lies outside it.
TemplateScore(notes, key) ==
    LET hits == {i \in 1..Len(notes) :
                    (noteToPitchClass(notes[i]) - key.root) % 12
                        \in key.template}
    IN 2 * Cardinality(hits) - (Len(notes) - Cardinality(hits))

\* C12: for every non-empty recording, the key stopRecording reports is one
\* of the 24 (root, mode) candidates, and its score (two per occurrence of a
\* pitch class in its template, minus one per occurrence outside it) is at
\* least the score of each other candidate.
C12_ReportedKeyIsMaximal ==
    (StopDone /\ recordedNotes_ # <<>>) =>
        \E key \in NamedKeys :
            /\ detectedKey_ = key.name
            /\ \A other \in NamedKeys :
                   TemplateScore(recordedNotes_, key) >=
                       TemplateScore(recordedNotes_, other)

\* A recording of two pitch classes that C Minor holds and C Major does not.
C12_Witness ==
    /\ StopDone
    /\ Len(recordedNotes_) = 2
    /\ detectedKey_ = <<"C", " Minor">>
    /\ \E key \in NamedKeys :
           /\ key.name = <<"C", " Major">>
           /\ TemplateScore(recordedNotes_, key) < 0

\* C13: stopRecording() on an empty recording, whether nothing was captured
\* or recording never started, returns the empty list and leaves
\* getDetectedKey() at "No notes recorded", never at the name of a key.
C13_EmptyRecordingHasNoKey ==
    (StopDone /\ stopResult = <<>>) =>
        /\ detectedKey_ = <<"No notes recorded">>
        /\ \A key \in NamedKeys : detectedKey_ # key.name

\* stopRecording() has returned the empty list while the detector was
\* publishing a note.
C13_Witness ==
    /\ StopDone
    /\ stopResult = <<>>
    /\ detectedNotes_ # <<>>
    /\ detectedKey_ = <<"No notes recorded">>

\* What getDetectedKey() has to return after stopRecording() returned L.
KeyOver(L) ==
    IF L = <<>> THEN <<"No notes recorded">> ELSE analyzeKey(L).bestKey

\* C14: once stopRecording() has returned a list L and until the next call of
\* startRecording or stopRecording, getDetectedKey() is the
\* Key Estimator's result over exactly L ("No notes recorded" for the empty
\* list), also when processBlock runs concurrently with stopRecording.
C14_KeyMatchesReturnedList ==
    StopDone => detectedKey_ = KeyOver(stopResult)

\* stopRecording() returned a non-empty list while processBlock was under
\* way, and the recording has since grown to one with another key.
C14_Witness ==
    /\ StopDone
    /\ stopResult # <<>>
    /\ recordedNotes_ # stopResult
    /\ KeyOver(recordedNotes_) # KeyOver(stopResult)
    /\ detectedKey_ = KeyOver(stopResult)

\* ------------------------------------------- properties of reset and no-ops

\* The last call on the detector was reset() or prepare().
AfterReset == last.op \in {"reset", "prepare"}

\* C15: after reset(), and so after prepare(), from any prior state the
\* pending count is 0, the published list, the candidate list and the
\* stability history are empty and isActive is false; the call leaves the two
\* thresholds as they were; and the first analysis cycle after it publishes
\* nothing, since a note again needs two consecutive cycles.
C15_ResetClearsDetector ==
    /\ [](AfterReset =>
            /\ getNumReady(fifo_) = 0
            /\ detectedNotes_ = <<>>
            /\ candidateNotes_ = <<>>
            /\ noteHistory_ = <<>>
            /\ ~isActive_)
    /\ [][AfterReset' =>
            UNCHANGED <<magnitudeThreshold_, noiseGateThreshold_>>]_vars
    /\ [][(AfterReset /\ policy = "mono" /\ last'.cycles = 1) =>
            detectedNotes_' = <<>>]_vars

\* reset() or prepare() has run on a detector that held pending samples and
\* a published note and whose noise gate had been set.
C15_Witness ==
    /\ AfterReset
    /\ last.pendingBefore > 0
    /\ last.hadNotes
    /\ noiseGateThreshold_ = 1000
    /\ getNumReady(fifo_) = 0
    /\ noteHistory_ = <<>>

\* The step is a processAudioBlock call with a null pointer or with a count
\* of zero or less.
InvalidCall ==
    /\ last'.op = "processAudioBlock"
    /\ Len(last'.block) <= 0

\* C16: processAudioBlock with a null pointer or a sample count of zero or
\* less is a no-op: isActive, the published notes, the pending samples and
\* the stability history are exactly as before the call.
C16_InvalidCallIsNoOp ==
    [][InvalidCall =>
          UNCHANGED <<isActive_, detectedNotes_, fifo_, fifoBuffer_, pastEnd_,
                      candidateNotes_, noteHistory_>>]_vars

\* Such a call has returned on a detector that is active, publishes a note
\* and holds pending samples.
C16_Witness ==
    /\ last.op = "processAudioBlock"
    /\ last.block = <<>>
    /\ isActive_
    /\ detectedNotes_ # <<>>
    /\ noteHistory_ # <<>>
    /\ getNumReady(fifo_) > 0

\* The step is a processAudioBlock call with samples whose RMS is below the
\* noise gate.
GatedCall ==
    /\ last'.op = "processAudioBlock"
    /\ Len(last'.block) > 0
    /\ calculateRMS(last'.block) < noiseGateThreshold_

\* C17: a noise-gated block leaves the buffered samples, the pending count
\* and the stability history, entries and counters, unchanged; only isActive
\* (to false) and the published list (to empty) change.
C17_GateKeepsBufferAndHistory ==
    [][GatedCall =>
          /\ UNCHANGED <<fifo_, fifoBuffer_, pastEnd_, candidateNotes_,
                         noteHistory_, magnitudeThreshold_,
                         noiseGateThreshold_, sampleRate_>>
          /\ ~isActive_'
          /\ detectedNotes_' = <<>>]_vars

\* A block was gated on a detector that held pending samples, a published
\* note and a stability history, all of which but the note are still there.
C17_Witness ==
    /\ last.op = "processAudioBlock"
    /\ last.gated
    /\ last.hadNotes
    /\ last.pendingBefore > 0
    /\ getNumReady(fifo_) = last.pendingBefore
    /\ noteHistory_ # <<>>
    /\ detectedNotes_ = <<>>

\* --------------------------------------- properties of the multi-peak stages

\* The function of the given kind has been applied to its argument.
Applied(kind) == obs.applied /\ obs.given.kind = kind

\* |b - h*l| < 0.1*l for a harmonic number h of 2, 3 or 4.
NearHarmonic(b, l) == \E h \in {2, 3, 4} : 10 * Abs(b - h * l) < l

\* C18: multi-peak build: the kept peaks are processed in ascending bin
\* order, and a peak at bin b is discarded exactly when some already accepted
\* lower peak at bin l has |b - h*l| < 0.1*l for an h in {2, 3, 4}, and
\* accepted otherwise; when the kept peaks are f and 2f only f survives, and
\* no accepted peak keeps its double.
C18_HarmonicFilter ==
    Applied("peaks") =>
        LET kept == obs.given.peaks
            accepted == obs.got
        IN /\ Range(accepted) \subseteq kept
           /\ \A i \in 1..(Len(accepted) - 1) : accepted[i] < accepted[i + 1]
           /\ \A b \in kept :
                  b \notin Range(accepted) <=>
                      \E l \in Range(accepted) : l < b /\ NearHarmonic(b, l)
           /\ \A f \in kept :
                  /\ kept = {f, 2 * f} => accepted = <<f>>
                  /\ f \in Range(accepted) => 2 * f \notin Range(accepted)

\* The filter has run on peaks at 10, 11, 19 and 23: it dropped 23, within
\* the tolerance of twice 11, and kept 19, on the edge of the tolerance of
\* twice 10.
C18_Witness ==
    /\ Applied("peaks")
    /\ obs.given.peaks = {10, 11, 19, 23}
    /\ obs.got = <<10, 11, 19>>

\* The strongest magnitude of a list of notes.
Strongest(notes) ==
    CHOOSE m \in {notes[i].magnitude : i \in 1..Len(notes)} :
        \A i \in 1..Len(notes) : notes[i].magnitude <= m

\* C19: multi-peak build, after every analysis cycle: every published note
\* has a magnitude of at least 40% of the strongest published note's, and
\* every classified candidate at or above that bound is published; of
\* candidates of 1.0, 0.5 and 0.3 the 0.3 is dropped and the 0.5 survives,
\* and a candidate at exactly 40% survives.
C19_RelativeThreshold ==
    Applied("notes") =>
        LET candidates == obs.given.notes
            published == obs.got
            bound == 4 * Strongest(published)
        IN /\ published # <<>>
           /\ \A i \in 1..Len(published) : 10 * published[i].magnitude >= bound
           /\ Range(published) \subseteq Range(candidates)
           /\ \A i \in 1..Len(candidates) :
                  10 * candidates[i].magnitude >= bound =>
                      candidates[i] \in Range(published)
           /\ Strongest(published) = Strongest(candidates)

\* The cycle classified candidates of 0.3, 0.4, 1.0 and 0.5 and publishes
\* the 1.0, the 0.5 and the 0.4, in that order.
C19_Witness ==
    /\ Applied("notes")
    /\ [i \in 1..Len(obs.given.notes) |-> obs.given.notes[i].magnitude]
           = <<300, 400, 1000, 500>>
    /\ [i \in 1..Len(obs.got) |-> obs.got[i].magnitude] = <<1000, 500, 400>>

\* ------------------------------------------- properties of the range table

\* The ranges whose half-open interval holds the frequency.
RangesHolding(frequency) ==
    {i \in 1..Len(frequencyMap_) :
        /\ frequencyMap_[i].minFrequency <= frequency
        /\ frequency < frequencyMap_[i].maxFrequency}

\* C20: the range table of MIDI 24..96 has no gaps and no overlaps: every
\* range ends where the next begins, every frequency from the first range's
\* lower bound up to, not including, the last range's upper bound lies in
\* exactly one half-open range and findNoteForFrequency returns that range's
\* note, and every frequency outside classifies as no note.
C20_RangesPartitionTheBand ==
    Applied("frequency") =>
        LET frequency == obs.given.frequency
            first == frequencyMap_[1]
            final == frequencyMap_[Len(frequencyMap_)]
            holding == RangesHolding(frequency)
        IN /\ \A i \in 1..Len(frequencyMap_) :
                  /\ frequencyMap_[i].midiNoteNumber = 23 + i
                  /\ frequencyMap_[i].minFrequency
                         < frequencyMap_[i].maxFrequency
           /\ \A i \in 1..(Len(frequencyMap_) - 1) :
                  frequencyMap_[i].maxFrequency
                      = frequencyMap_[i + 1].minFrequency
           /\ IF first.minFrequency <= frequency
                 /\ frequency < final.maxFrequency
              THEN /\ Cardinality(holding) = 1
                   /\ \A i \in holding : obs.got = <<frequencyMap_[i]>>
              ELSE obs.got = <<>>

\* The frequency at which the range of MIDI 69 ends was looked up and is the
\* note of MIDI 70.
C20_Witness ==
    /\ Applied("frequency")
    /\ obs.given.frequency = frequencyMap_[46].maxFrequency
    /\ Len(obs.got) = 1
    /\ obs.got[1].midiNoteNumber = 70
    /\ obs.got[1].noteName = <<"A", "#">>

\* ------------------------------------------------ properties of the polyphony

\* C21: multi-peak build: after any sequence of processAudioBlock calls the
\* published list holds at most K = 4 notes.
C21_AtMostFourNotes ==
    policy = "multi" => Len(detectedNotes_) <= 4

\* A cycle on a spectrum with five separate peaks has published four notes:
\* the four strongest, without the weakest peak at bin 4 (an A).
C21_Witness ==
    /\ policy = "multi"
    /\ last.cycles = 1
    /\ Len(detectedNotes_) = 4
    /\ \A i \in 1..Len(detectedNotes_) : detectedNotes_[i].magnitude > 52

\* ------------------------------------------------ properties of the setters

\* min(max(x, 0), 1) of a number, in thousandths.
Clamped(x) == IF x < 0 THEN 0 ELSE IF x > 1000 THEN 1000 ELSE x

\* The value lies in [0, 1].
InUnitInterval(x) == x # NaN /\ 0 <= x /\ x <= 1000

\* C22: setMagnitudeThreshold(x) and setNoiseGateThreshold(x) store
\* min(max(x, 0), 1) for every input x, so after any sequence of calls both
\* thresholds lie in [0, 1].
C22_ThresholdsClamped ==
    /\ InUnitInterval(magnitudeThreshold_)
    /\ InUnitInterval(noiseGateThreshold_)
    /\ (obs.given.kind = "threshold" /\ obs.given.threshold # NaN) =>
           /\ last.op = "setMagnitudeThreshold" =>
                  magnitudeThreshold_ = Clamped(obs.given.threshold)
           /\ last.op = "setNoiseGateThreshold" =>
                  noiseGateThreshold_ = Clamped(obs.given.threshold)

\* ------------------------------------------- properties of the recorded list

\* Neither processBlock nor startRecording/stopRecording is under way.
Quiet == pcAudio = "idle" /\ pcCtrl = "idle"

\* C23: while recording, the recorded sequence is the sequence of the
\* strongest published labels processBlock found since recording started,
\* blocks without a published note skipped and consecutive equal labels
\* collapsed (so a note played twice with only silence in between is
\* recorded once).
C23_RecordedIsCollapsedLabels ==
    (Quiet /\ isRecording_) => recordedNotes_ = obs.heard

\* --------------------------------------------------- properties of the buffer

\* C24: every index at which processAudioBlock writes the sample storage, or
\* performFFTAnalysis reads it, lies in [0, frameSize), the storage's
\* allocated length, for every sequence of block lengths.
C24_IndicesInsideStorage ==
    \A idx \in last.wroteAt \union last.readAt : idx >= 0 /\ idx < fftSize_

\* C25: when every submitted block passes the noise gate and is no longer
\* than a frame, no sample is dropped: the samples pending in the buffer are
\* all the samples submitted that no frame has held yet, and each analysis
\* frame holds the oldest frameSize of them in arrival order.
C25_NoSampleDropped ==
    (last.op = "processAudioBlock")
        => /\ ~last.gated
           /\ getNumReady(fifo_) = Len(obs.arrived)
           /\ last.cycles > 0 => last.frame = obs.due

\* ------------------------------------- properties of the strongest-bin history

\* The MIDI numbers of the entries of a history.
HistoryMidi(history) == {history[i].midiNote : i \in 1..Len(history)}

\* The MIDI numbers of a list of notes.
NotesMidi(notes) == {notes[i].midiNoteNumber : i \in 1..Len(notes)}

\* C26: strongest-bin build: after every analysis cycle the history holds at
\* most one entry, which is the entry of that cycle's candidate with a count
\* of at least 1 (and none when the cycle had no candidate), and the
\* published list holds at most one note.
C26_HistoryIsTheCandidate ==
    (policy = "mono" /\ last.cycles = 1)
        => /\ Len(noteHistory_) <= 1
           /\ Len(noteHistory_) = Len(candidateNotes_)
           /\ HistoryMidi(noteHistory_) = NotesMidi(candidateNotes_)
           /\ \A i \in 1..Len(noteHistory_) :
                  noteHistory_[i].consecutiveFrames >= 1
           /\ Len(detectedNotes_) <= 1

C26_Witness ==
    /\ policy = "mono"
    /\ last.cycles = 1
    /\ Len(noteHistory_) = 1
    /\ noteHistory_[1].consecutiveFrames = stabilityFramesRequired_
    /\ Len(detectedNotes_) = 1
    /\ detectedNotes_[1].midiNoteNumber = noteHistory_[1].midiNote

\* C27: strongest-bin build: in a cycle whose candidate differs from the
\* candidate of the cycle before, the earlier candidate's entry is deleted
\* and the published list is empty at the end of the cycle; outside a cycle
\* no note is added to the list, so the new candidate is published in the
\* following cycle at the earliest.
C27_ChangeEmptiesTheList ==
    [][(policy = "mono")
        => /\ (/\ last'.cycles = 1
               /\ candidateNotes_ # <<>>
               /\ candidateNotes_' # <<>>
               /\ NotesMidi(candidateNotes_) # NotesMidi(candidateNotes_'))
                  => /\ HistoryMidi(noteHistory_') \cap NotesMidi(candidateNotes_)
                         = {}
                     /\ detectedNotes_' = <<>>
           /\ (last'.cycles = 0)
                  => detectedNotes_' \in {detectedNotes_, <<>>}]_vars

C27_Witness ==
    /\ policy = "mono"
    /\ last.cycles = 1
    /\ last.hadNotes
    /\ candRun.n = 1
    /\ detectedNotes_ = <<>>
    /\ HistoryMidi(noteHistory_) = NotesMidi(candidateNotes_)
    /\ Len(noteHistory_) = 1

\* ------------------------------------------------ the keys that are reported

\* The pitch classes of a named key.
PitchClasses(key) == {(key.root + t) % 12 : t \in key.template}

\* No key with the same pitch classes is evaluated before this one (keys
\* with the same pitch classes have different roots).
FirstOfItsScale(key) ==
    \A other \in NamedKeys :
        PitchClasses(other) = PitchClasses(key) => other.root >= key.root

\* The named key of the candidate noted in the session.
GivenKey == CHOOSE key \in NamedKeys : key.name = KeyName(obs.given.n)

\* The recordings of a build that are tried for a key.
TriedSessions(build) ==
    KeySessions(build) \cup {ScaleOf(build, n) : n \in 1..24}

\* C28 (as claimed): for each of the 24 key candidates there is a non-empty
\* recording of valid labels for which stopRecording reports that candidate.
C28_EveryKeyIsReported ==
    StopDone =>
        \E notes \in TriedSessions(policy) : keyOnStop(notes) = GivenKey.name

\* C28 (amended): stopRecording reports only the 12 candidates that are
\* evaluated before the candidate with the same pitch classes (C, C# and D
\* Major, and C to G# Minor); for each of these there is a non-empty
\* recording, its scale, for which stopRecording reports it.
C28_FirstOfEachScaleIsReported ==
    StopDone =>
        /\ \E key \in NamedKeys : FirstOfItsScale(key) /\ detectedKey_ = key.name
        /\ FirstOfItsScale(GivenKey) =>
               keyOnStop(ScaleOf(policy, obs.given.n)) = GivenKey.name

C28_Witness ==
    /\ StopDone
    /\ recordedNotes_ = ScaleOf(policy, obs.given.n)
    /\ GivenKey.name = <<"G", "#", " Minor">>
    /\ detectedKey_ = GivenKey.name
    /\ Cardinality({key \in NamedKeys : FirstOfItsScale(key)}) = 12

\* C29: for every non-empty recording the key stopRecording sets is one of
\* the 24 names "<root> Major" / "<root> Minor" and never "Unknown": the best
\* score is at least 0, above the initial best score of -1000.
C29_KeyIsNeverUnknown ==
    (StopDone /\ recordedNotes_ # <<>>)
        => /\ detectedKey_ \in {key.name : key \in NamedKeys}
           /\ detectedKey_ # <<"Unknown">>
           /\ analyzeKey(recordedNotes_).bestScore >= 0

C29_Witness ==
    /\ StopDone
    /\ Len(recordedNotes_) = 7
    /\ analyzeKey(recordedNotes_).bestScore = 14
    /\ detectedKey_ = <<"D", " Major">>

\* ------------------------------------------- properties of the refined peak

\* C30: strongest-bin build: whenever the parabolic refinement is applied,
\* the refined peak index lies within half a bin of the strongest bin, for
\* every spectrum, also when the strongest bin is bin 2 and bin 1, which the
\* search skips, is larger.
C30_RefinedWithinHalfABin ==
    (Applied("spectrum") /\ obs.got # <<>>)
        => Abs(obs.got[2] - 1000 * obs.got[1]) <= 500

====
